---- MODULE Spec2Model ----
(***************************************************************************)
(* Model of the demographic classifier: the gender fusion rule, the age    *)
(* binning inside the image classifier, the audience aggregator and the    *)
(* vector assembler (src/demographic_classifier.py, src/data_processor.py, *)
(* src/main.py).                                                           *)
(***************************************************************************)
EXTENDS Integers, FiniteSets, Sequences, TLC

VARIABLES
    NLP_CLASSIFIER,  \* module global: TRUE when the transformers pipeline loaded
    pc,              \* position of the run: "call", "classified", "done", "failed"
    analysis,        \* what DeepFace.analyze did for the image (environment)
    img_res,         \* result of classify_from_image / image_result argument
    bio_res,         \* result of classify_from_bio / bio_result argument
    final_gender,    \* outcome of ensemble_gender_prediction
    influencer_data, \* the influencer record given to the assembler
    audience_data,   \* the raw audience record
    demographics,    \* outcome of process_audience_demographics
    final_vector     \* outcome of create_final_demographic_vector

vars == <<NLP_CLASSIFIER, pc, analysis, img_res, bio_res, final_gender,
          influencer_data, audience_data, demographics, final_vector>>

\* ---------------------------------------------------------------- bounds
\* confidences given to the fusion rule directly are k / GridSteps, k in 0..GridSteps
GridSteps == 100
\* ages reported by the image analysis range over -MaxNegAge..MaxAge
MaxAge == 52
MaxNegAge == 2
\* a bio text holds at most MaxCues of the cue words, and what they contain
MaxCues == 1
\* audience shares are 0..MaxShare tenths of a percent
MaxShare == 2

\* ------------------------------------------------- Python float arithmetic
\* A non-negative binary64 value is the set of the exponents of its binary
\* digits that are 1: {} is 0.0, {0} is 1.0, {-1} is 0.5.  Every value below
\* has at most 53 consecutive digit positions, as a binary64 significand has.
MaxBit(S) == CHOOSE i \in S : \A j \in S : j <= i
MinBit(S) == CHOOSE i \in S : \A j \in S : j >= i

\* round an exact non-negative value to the nearest binary64, ties to even;
\* sticky says that the exact value has further non-zero digits below those of S
RoundToDouble(S, sticky) ==
    IF S = {} THEN {}
    ELSE LET top  == MaxBit(S)
             cut  == top - 52
             kept == {i \in cut..top : i \in S}
             half == (cut - 1) \in S
             rest == sticky \/ \E i \in S : i < cut - 1
             z    == MinBit({i \in cut..(top + 1) : i \notin kept})
         IN IF half /\ (rest \/ cut \in kept)
            THEN {i \in cut..(top + 1) : i = z \/ (i > z /\ i \in kept)}
            ELSE kept

\* the exact product, by columns of 12 binary digits with a carry between them
RECURSIVE ChunkSum(_, _, _, _)
ChunkSum(A, B, base, t) ==
    IF t = 12 THEN 0
    ELSE Cardinality({i \in A : (base + t - i) \in B}) * 2^t
         + ChunkSum(A, B, base, t + 1)

RECURSIVE Chunks(_, _, _, _, _)
Chunks(A, B, base, top, carry) ==
    IF base > top /\ carry = 0 THEN <<>>
    ELSE LET total == ChunkSum(A, B, base, 0) + carry
         IN <<total % 2^12>> \o Chunks(A, B, base + 12, top, total \div 2^12)

ExactProduct(A, B) ==
    IF A = {} \/ B = {} THEN {}
    ELSE LET lo == MinBit(A) + MinBit(B)
             ch == Chunks(A, B, lo, MaxBit(A) + MaxBit(B), 0)
         IN {j \in lo..(lo + 12 * Len(ch) - 1) :
                (ch[((j - lo) \div 12) + 1] \div 2^((j - lo) % 12)) % 2 = 1}

\* x * y on floats
FloatMul(A, B) == RoundToDouble(ExactProduct(A, B), FALSE)

\* x > y on floats
FloatGt(A, B) ==
    /\ A # B
    /\ MaxBit((A \ B) \cup (B \ A)) \in A

RECURSIVE Pow2Mod(_, _)
Pow2Mod(p, d) ==
    IF p = 0 THEN 1 % d
    ELSE LET h == Pow2Mod(p \div 2, d)
         IN (h * h * (IF p % 2 = 1 THEN 2 ELSE 1)) % d

\* the binary digit of n / d at exponent -p (0 <= n < 2 * d)
QuotientDigit(n, d, p) ==
    IF p = 0 THEN n \div d
    ELSE (2 * ((n * Pow2Mod(p - 1, d)) % d)) \div d

\* the float n / d for small naturals n <= d: a decimal literal such as 0.6
\* (6 / 10) and a true division such as 95 / 100.0 both give this value
FloatDiv(n, d) ==
    RoundToDouble({e \in (0 - 72)..0 : QuotientDigit(n, d, 0 - e) = 1},
                  (n * Pow2Mod(72, d)) % d # 0)

\* ------------------------------------------------------------- fusion rule
W_IMG == FloatDiv(6, 10)
W_BIO == FloatDiv(4, 10)
THRESHOLD == FloatDiv(7, 10)

Confidences == {FloatDiv(k, GridSteps) : k \in 0..GridSteps}

\* p / 100.0, and the decimal literal of p hundredths, computed once
HundredthTable == [p \in 0..100 |-> FloatDiv(p, 100)]
Hundredth(p) == HundredthTable[p]

\* the products the fusion rule forms, computed once
ProductTable ==
    [c \in Confidences \cup {HundredthTable[p] : p \in 0..100}, w \in {W_IMG, W_BIO} |->
        FloatMul(c, w)]
Times(c, w) ==
    IF <<c, w>> \in DOMAIN ProductTable THEN ProductTable[c, w] ELSE FloatMul(c, w)

\* how a call ends: a return statement (its line) with its value, or an exception
Return(v, line) == [kind |-> "return", value |-> v, line |-> line]
Raise(exc, line) == [kind |-> "raise", value |-> exc, line |-> line]

agreement_inverted(img_g, bio_g) == img_g = bio_g /\ img_g = "UNKNOWN"
agreement(img_g, bio_g) == img_g = bio_g /\ img_g # "UNKNOWN"

mutual_ignorance_or(img_g, bio_g) == img_g = "UNKNOWN" \/ bio_g = "UNKNOWN"
mutual_ignorance(img_g, bio_g) == img_g = "UNKNOWN" /\ bio_g = "UNKNOWN"

weighted_choice_ge(img_g, img_c, bio_g, bio_c) ==
    IF ~FloatGt(Times(bio_c, W_BIO), Times(img_c, W_IMG)) THEN img_g ELSE bio_g
weighted_choice(img_g, img_c, bio_g, bio_c) ==
    IF FloatGt(Times(img_c, W_IMG), Times(bio_c, W_BIO)) THEN img_g ELSE bio_g

known_if_confident_ge(g, c) == IF ~FloatGt(THRESHOLD, c) THEN g ELSE "UNKNOWN"
known_if_confident(g, c) == IF FloatGt(c, THRESHOLD) THEN g ELSE "UNKNOWN"

ensemble_run(image_result, bio_result) ==
    IF ~({"gender", "confidence"} \subseteq DOMAIN image_result)
    THEN Raise("KeyError", 125)
    ELSE IF ~({"gender", "confidence"} \subseteq DOMAIN bio_result)
    THEN Raise("KeyError", 126)
    ELSE LET img_g == image_result["gender"]
             img_c == image_result["confidence"]
             bio_g == bio_result["gender"]
             bio_c == bio_result["confidence"]
         IN IF agreement(img_g, bio_g) THEN Return(img_g, 130)
            ELSE IF mutual_ignorance(img_g, bio_g) THEN Return("UNKNOWN", 133)
            ELSE IF img_g # "UNKNOWN" /\ bio_g # "UNKNOWN"
            THEN Return(weighted_choice(img_g, img_c, bio_g, bio_c), 140)
            ELSE IF img_g # "UNKNOWN" THEN Return(known_if_confident(img_g, img_c), 144)
            ELSE IF bio_g # "UNKNOWN" THEN Return(known_if_confident(bio_g, bio_c), 146)
            ELSE Return("UNKNOWN", 148)

ensemble_gender_prediction(image_result, bio_result) ==
    ensemble_run(image_result, bio_result).value

\* ------------------------------------------ the fusion rule called directly
Labels == {"MALE", "FEMALE", "UNKNOWN"}
GenderEstimates == [gender : Labels, confidence : Confidences]
Idle == [kind |-> "idle"]
Pending == [kind |-> "pending"]

InitFusion ==
    /\ img_res \in GenderEstimates
    /\ bio_res \in GenderEstimates
    /\ final_gender = Pending
    /\ NLP_CLASSIFIER = Idle /\ pc = Idle /\ analysis = Idle
    /\ influencer_data = Idle /\ audience_data = Idle
    /\ demographics = Idle /\ final_vector = Idle

EnsembleGenderPrediction ==
    /\ final_gender = Pending
    /\ final_gender' = ensemble_run(img_res, bio_res)
    /\ UNCHANGED <<NLP_CLASSIFIER, pc, analysis, img_res, bio_res,
                   influencer_data, audience_data, demographics, final_vector>>

NextFusion == EnsembleGenderPrediction

SpecFusion == InitFusion /\ [][NextFusion]_vars

Fused == final_gender # Pending
BothKnown == img_res.gender # "UNKNOWN" /\ bio_res.gender # "UNKNOWN"
OneKnown == (img_res.gender = "UNKNOWN") # (bio_res.gender = "UNKNOWN")
ScoreImage == Times(img_res.confidence, W_IMG)
ScoreBio == Times(bio_res.confidence, W_BIO)

\* C1 as stated: two different known labels give the label whose weighted score
\* (confidence times 0.6 for the image, times 0.4 for the bio) is strictly
\* greater, and the image label when the two scores are exactly equal.
C1_TieGoesToImage ==
    (Fused /\ BothKnown /\ img_res.gender # bio_res.gender) =>
        /\ FloatGt(ScoreImage, ScoreBio) => final_gender.value = img_res.gender
        /\ FloatGt(ScoreBio, ScoreImage) => final_gender.value = bio_res.gender
        /\ ScoreImage = ScoreBio => final_gender.value = img_res.gender

\* C1 amended: two different known labels give the label whose computed weighted
\* score is strictly greater, and the bio label when the two computed scores are
\* exactly equal.
C1_TieGoesToBio ==
    (Fused /\ BothKnown /\ img_res.gender # bio_res.gender) =>
        /\ FloatGt(ScoreImage, ScoreBio) => final_gender.value = img_res.gender
        /\ FloatGt(ScoreBio, ScoreImage) => final_gender.value = bio_res.gender
        /\ ScoreImage = ScoreBio => final_gender.value = bio_res.gender

\* image (MALE, 0.4) against bio (FEMALE, 0.6): both scores are the same float
C1_TieWitness ==
    /\ Fused
    /\ img_res = [gender |-> "MALE", confidence |-> FloatDiv(4, 10)]
    /\ bio_res = [gender |-> "FEMALE", confidence |-> FloatDiv(6, 10)]
    /\ ScoreImage = ScoreBio
    /\ final_gender.value = "FEMALE"

KnownSide == IF img_res.gender # "UNKNOWN" THEN img_res ELSE bio_res

\* C2: with exactly one label UNKNOWN the result is the known label if and only
\* if that source's own raw confidence is strictly greater than 0.7, and is
\* UNKNOWN otherwise, whichever source is the known one.
C2_SingleSourceThreshold ==
    (Fused /\ OneKnown) =>
        /\ final_gender.value = KnownSide.gender <=> FloatGt(KnownSide.confidence, THRESHOLD)
        /\ ~FloatGt(KnownSide.confidence, THRESHOLD) => final_gender.value = "UNKNOWN"

\* the bio is the known source, at confidence exactly 0.7
C2_BoundaryWitness ==
    /\ Fused
    /\ img_res.gender = "UNKNOWN"
    /\ bio_res = [gender |-> "FEMALE", confidence |-> THRESHOLD]
    /\ final_gender.value = "UNKNOWN"

\* C3: equal known labels give that label whatever the two confidences are, and
\* the call returns from the agreement rule, before any score or threshold.
C3_AgreementDominates ==
    (Fused /\ BothKnown /\ img_res.gender = bio_res.gender) =>
        final_gender = Return(img_res.gender, 130)

\* agreement at confidence 0 on both sides
C3_ZeroConfidenceWitness ==
    /\ Fused
    /\ img_res = [gender |-> "MALE", confidence |-> {}]
    /\ bio_res = [gender |-> "MALE", confidence |-> {}]
    /\ final_gender.value = "MALE"

\* C4: over the three labels and the confidences in [0,1] the call returns one
\* label, raises nothing, and returns from the rule of its case: agreement,
\* mutual ignorance, disagreement or one-known; never from the final fallback.
C4_TotalAndExhaustive ==
    Fused =>
        /\ final_gender.kind = "return"
        /\ final_gender.value \in Labels
        /\ final_gender.line \in {130, 133, 140, 144, 146}
        /\ final_gender.line = 130 <=> (BothKnown /\ img_res.gender = bio_res.gender)
        /\ final_gender.line = 133 <=> (img_res.gender = "UNKNOWN" /\ bio_res.gender = "UNKNOWN")
        /\ final_gender.line = 140 <=> (BothKnown /\ img_res.gender # bio_res.gender)
        /\ final_gender.line = 144 <=> (OneKnown /\ img_res.gender # "UNKNOWN")
        /\ final_gender.line = 146 <=> (OneKnown /\ bio_res.gender # "UNKNOWN")

\* the last rule before the fallback: only the bio is known, and confident
C4_LastRuleWitness ==
    /\ Fused
    /\ final_gender = Return("FEMALE", 146)

\* ------------------------------------------------------ audience aggregator
\* A Python dict is a function from its keys; the region mapping, whose order of
\* insertion decides max(), is the sequence of its <<key, share>> items.
EmptyDict == [k \in {} |-> 0]
Get(d, k, default) == IF k \in DOMAIN d THEN d[k] ELSE default

\* regions.get(key, default) on the items of the region mapping
ItemsGet(items, k, default) ==
    IF \E i \in 1..Len(items) : items[i][1] = k
    THEN items[CHOOSE i \in 1..Len(items) : items[i][1] = k][2]
    ELSE default

\* max(regions, key=regions.get, default=...): the keys are visited in insertion
\* order and a later key replaces the best one only when its value is greater
RECURSIVE MaxScan(_, _, _)
MaxScan(items, i, best) ==
    IF i > Len(items) THEN best
    ELSE IF ItemsGet(items, items[i][1], 0) > ItemsGet(items, best, 0)
         THEN MaxScan(items, i + 1, items[i][1])
         ELSE MaxScan(items, i + 1, best)

RECURSIVE MaxScanLast(_, _, _)
MaxScanLast(items, i, best) ==
    IF i > Len(items) THEN best
    ELSE IF ItemsGet(items, items[i][1], 0) >= ItemsGet(items, best, 0)
         THEN MaxScanLast(items, i + 1, items[i][1])
         ELSE MaxScanLast(items, i + 1, best)

max_by_value_last(items, default) ==
    IF Len(items) = 0 THEN default ELSE MaxScanLast(items, 2, items[1][1])
max_by_value(items, default) ==
    IF Len(items) = 0 THEN default ELSE MaxScan(items, 2, items[1][1])

\* f"{top_region} ({top_region_perc:.1f}%)" for a share given in tenths
format_top_region(top_region, perc) ==
    <<top_region, " (", perc \div 10, ".", perc % 10, "%)">>

target_age_share_first_only(age_dist) == Get(age_dist, "18-25", 0)
target_age_share(age_dist) == Get(age_dist, "18-25", 0) + Get(age_dist, "26-35", 0)

raw_distribution_targets_only(dist) ==
    [k \in DOMAIN dist \cap {"18-25", "26-35", "Female"} |-> dist[k]]
raw_distribution(dist) == dist

process_audience_demographics(audience) ==
    LET regions     == Get(audience, "follower_regions", <<>>)
        age_dist    == Get(audience, "follower_age_dist", EmptyDict)
        gender_dist == Get(audience, "follower_gender_dist", EmptyDict)
        top_region  == max_by_value(regions, "N/A")
        top_region_perc == ItemsGet(regions, top_region, 0)
    IN [audience_top_region  |-> format_top_region(top_region, top_region_perc),
        audience_18_35_perc  |-> target_age_share(age_dist),
        audience_female_perc |-> Get(gender_dist, "Female", 0),
        raw_age_dist         |-> raw_distribution(age_dist),
        raw_gender_dist      |-> raw_distribution(gender_dist)]

\* ---------------------------------------------------------- vector assembler
required_field_defaulted(data, key, line) ==
    Return(Get(data, key, "UNKNOWN"), line)
required_field(data, key, line) ==
    IF key \in DOMAIN data THEN Return(data[key], line) ELSE Raise("KeyError", line)

create_final_demographic_vector(influencer, audience) ==
    LET id     == required_field(influencer, "influencer_id", 37)
        gender == required_field(influencer, "gender", 38)
        age    == required_field(influencer, "age_group", 39)
    IN IF id.kind = "raise" THEN id
       ELSE IF gender.kind = "raise" THEN gender
       ELSE IF age.kind = "raise" THEN age
       ELSE Return([influencer_id        |-> id.value,
                    influencer_gender    |-> gender.value,
                    influencer_age_group |-> age.value,
                    demographics_vector  |-> process_audience_demographics(audience)], 36)

\* ------------------------------------- the data processor called directly
Shares == 0..MaxShare
RegionKeys == {"US", "CA"}
AgeKeys == {"18-25", "26-35", "36-50"}
GenderKeys == {"Female", "Male"}

Dicts(keys) == UNION {[ks -> Shares] : ks \in SUBSET keys}

RegionItems ==
    {items \in UNION {[1..n -> RegionKeys \X Shares] : n \in 0..Cardinality(RegionKeys)} :
        \A i, j \in 1..Len(items) : i # j => items[i][1] # items[j][1]}

Restrict(f, keys) == [k \in keys |-> f[k]]

\* a key of the audience record: absent, or present with one of its values
Optional(values) == {[present |-> FALSE]} \cup {[present |-> TRUE, value |-> v] : v \in values}

\* the audience record holding the mappings that are present
AudienceRecord(regions, age_dist, gender_dist) ==
    LET given == [follower_regions     |-> regions,
                  follower_age_dist    |-> age_dist,
                  follower_gender_dist |-> gender_dist]
    IN [k \in {key \in DOMAIN given : given[key].present} |-> given[k].value]

InfluencerInputs ==
    {Restrict(full, present) :
        full \in [influencer_id : {"A456_Wellness"}, gender : {"MALE"},
                  age_group : {"26-35"}],
        present \in SUBSET {"influencer_id", "gender", "age_group"}}

InitData ==
    /\ influencer_data \in InfluencerInputs
    /\ \E regions \in Optional(RegionItems), age_dist \in Optional(Dicts(AgeKeys)),
          gender_dist \in Optional(Dicts(GenderKeys)) :
          audience_data = AudienceRecord(regions, age_dist, gender_dist)
    /\ demographics = Pending
    /\ final_vector = Pending
    /\ NLP_CLASSIFIER = Idle /\ pc = Idle /\ analysis = Idle
    /\ img_res = Idle /\ bio_res = Idle /\ final_gender = Idle

ProcessAudienceDemographics ==
    /\ demographics = Pending
    /\ demographics' = Return(process_audience_demographics(audience_data), 24)
    /\ UNCHANGED <<NLP_CLASSIFIER, pc, analysis, img_res, bio_res, final_gender,
                   influencer_data, audience_data, final_vector>>

CreateFinalDemographicVector ==
    /\ final_vector = Pending
    /\ final_vector' = create_final_demographic_vector(influencer_data, audience_data)
    /\ UNCHANGED <<NLP_CLASSIFIER, pc, analysis, img_res, bio_res, final_gender,
                   influencer_data, audience_data, demographics>>

NextData == ProcessAudienceDemographics \/ CreateFinalDemographicVector

SpecData == InitData /\ [][NextData]_vars

RequiredFields == {"influencer_id", "gender", "age_group"}

\* C6: the assembler fails with the missing-field error (Python's KeyError), and
\* builds no vector, whenever the influencer record lacks one of its id, gender
\* or age group; with all three present it returns a vector for every audience.
C6_MissingFieldFails ==
    final_vector # Pending =>
        /\ ~(RequiredFields \subseteq DOMAIN influencer_data)
              => (final_vector.kind = "raise" /\ final_vector.value = "KeyError")
        /\ RequiredFields \subseteq DOMAIN influencer_data
              => (final_vector.kind = "return"
                  /\ final_vector.value.influencer_id = influencer_data["influencer_id"])

\* only the age group is missing: the lookup on line 39 fails
C6_MissingAgeGroupWitness ==
    /\ DOMAIN influencer_data = {"influencer_id", "gender"}
    /\ final_vector = Raise("KeyError", 39)

\* the three mappings of the input, an absent one read as empty
InRegions == IF "follower_regions" \in DOMAIN audience_data
             THEN audience_data["follower_regions"] ELSE <<>>
InAgeDist == IF "follower_age_dist" \in DOMAIN audience_data
             THEN audience_data["follower_age_dist"] ELSE EmptyDict
InGenderDist == IF "follower_gender_dist" \in DOMAIN audience_data
                THEN audience_data["follower_gender_dist"] ELSE EmptyDict
ShareOrZero(d, k) == IF k \in DOMAIN d THEN d[k] ELSE 0

\* the region name and the share (in tenths) shown in the formatted top region
ShownRegion == demographics.value.audience_top_region[1]
ShownShare == 10 * demographics.value.audience_top_region[3]
              + demographics.value.audience_top_region[5]

\* C8: the aggregator returns for every absent or empty mapping and every missing
\* key: an empty region mapping gives "N/A" with share 0, each missing age
\* bracket counts 0 in the target age share, a missing "Female" gives 0.
C8_DegenerateInputDefaults ==
    demographics # Pending =>
        /\ demographics.kind = "return"
        /\ Len(InRegions) = 0 =>
              demographics.value.audience_top_region = <<"N/A", " (", 0, ".", 0, "%)">>
        /\ demographics.value.audience_18_35_perc
              = ShareOrZero(InAgeDist, "18-25") + ShareOrZero(InAgeDist, "26-35")
        /\ demographics.value.audience_female_perc = ShareOrZero(InGenderDist, "Female")

\* no regions, only the "26-35" bracket and only "Male": every default is used
C8_MissingKeysWitness ==
    /\ demographics # Pending
    /\ "follower_regions" \notin DOMAIN audience_data
    /\ DOMAIN InAgeDist = {"26-35"} /\ InAgeDist["26-35"] = 1
    /\ DOMAIN InGenderDist = {"Male"}
    /\ ShownRegion = "N/A" /\ ShownShare = 0
    /\ demographics.value.audience_18_35_perc = 1
    /\ demographics.value.audience_female_perc = 0

\* C9: for a non-empty region mapping the top region is a key whose share is the
\* maximum, the share shown is that key's share, and among several keys with the
\* maximum it is the first in insertion order.
C9_TopRegionFirstMaximum ==
    (demographics # Pending /\ Len(InRegions) > 0) =>
        \E i \in 1..Len(InRegions) :
            /\ InRegions[i][1] = ShownRegion
            /\ InRegions[i][2] = ShownShare
            /\ \A j \in 1..Len(InRegions) : InRegions[j][2] <= InRegions[i][2]
            /\ \A j \in 1..(i - 1) : InRegions[j][2] < InRegions[i][2]

\* two regions tie on the maximum: the one inserted first is reported
C9_TieWitness ==
    /\ demographics # Pending
    /\ InRegions = <<(<<"CA", 1>>), (<<"US", 1>>)>>
    /\ ShownRegion = "CA" /\ ShownShare = 1

\* C10: the raw age and gender distributions of the aggregator's output, and of
\* the demographics vector of the final vector, equal the input distributions
\* key for key, and the call leaves the input as it was.
C10_RawPassthrough ==
    [][/\ audience_data' = audience_data
       /\ demographics' # demographics =>
             /\ demographics'.value.raw_age_dist = InAgeDist
             /\ demographics'.value.raw_gender_dist = InGenderDist
       /\ (final_vector' # final_vector /\ final_vector'.kind = "return") =>
             /\ final_vector'.value.demographics_vector.raw_age_dist = InAgeDist
             /\ final_vector'.value.demographics_vector.raw_gender_dist = InGenderDist]_vars

\* a distribution with keys the summary ignores ("36-50", "Male") is passed on whole
C10_FullDistributionWitness ==
    /\ demographics # Pending
    /\ final_vector # Pending /\ final_vector.kind = "return"
    /\ DOMAIN InAgeDist = {"18-25", "36-50"}
    /\ DOMAIN InGenderDist = {"Female", "Male"}
    /\ demographics.value.raw_age_dist = InAgeDist
    /\ final_vector.value.demographics_vector.raw_gender_dist = InGenderDist

\* ------------------------------------------------------------ image classifier
age_binning_exclusive(age) ==
    IF 18 <= age /\ age < 25 THEN "18-25"
    ELSE IF 26 <= age /\ age < 35 THEN "26-35"
    ELSE IF 36 <= age /\ age < 50 THEN "36-50"
    ELSE IF age > 0 THEN "Other" ELSE "UNKNOWN"
age_binning(age) ==
    IF 18 <= age /\ age <= 25 THEN "18-25"
    ELSE IF 26 <= age /\ age <= 35 THEN "26-35"
    ELSE IF 36 <= age /\ age <= 50 THEN "36-50"
    ELSE IF age > 0 THEN "Other" ELSE "UNKNOWN"

\* str.upper() on the labels that occur
Upper(label) ==
    CASE label = "Man" -> "MAN"
      [] label = "Woman" -> "WOMAN"
      [] OTHER -> label

UnknownImage == [gender |-> "UNKNOWN", age_group |-> "UNKNOWN", confidence |-> {}]

\* image is "missing" when os.path.exists fails, and otherwise what
\* DeepFace.analyze did: an exception, or the list it returned
classify_from_image(image) ==
    IF image.kind = "missing" THEN UnknownImage
    ELSE IF image.kind = "raise" THEN UnknownImage
    ELSE IF Len(image.value) = 0 THEN UnknownImage
    ELSE LET result            == image.value[1]
             age               == Get(result, "age", 0)
             gender_prediction == Get(result, "gender", <<>>)
             gender            == max_by_value(gender_prediction, "UNKNOWN")
         IN [gender     |-> Upper(gender),
             age_group  |-> age_binning(age),
             confidence |-> Hundredth(ItemsGet(gender_prediction, gender, 0))]

\* -------------------------------------------------------------- bio classifier
\* A bio text is what the classifier can tell of it: whether nothing is left of
\* it after cleaning, and which of the cue words its lower-cased text contains.
StrongFemaleCues == {"she/her", "mama", "girl boss"}
StrongMaleCues == {"he/him", "dad", "guy", "gearhead"}
WeakFemaleCues == {"she", "her", "woman"}
WeakMaleCues == {"he", "him", "man"}
CueWords == StrongFemaleCues \cup StrongMaleCues \cup WeakFemaleCues \cup WeakMaleCues

\* the cue words that are substrings of a cue word
CuesWithin(w) ==
    CASE w = "she/her" -> {"she/her", "she", "her", "he"}
      [] w = "he/him" -> {"he/him", "he", "him"}
      [] w = "gearhead" -> {"gearhead", "he"}
      [] w = "she" -> {"she", "he"}
      [] w = "her" -> {"her", "he"}
      [] w = "woman" -> {"woman", "man"}
      [] OTHER -> {w}

BioTexts ==
    {[empty |-> TRUE, cues |-> {}]}
    \cup {[empty |-> FALSE, cues |-> UNION {CuesWithin(w) : w \in ws}] :
            ws \in {x \in SUBSET CueWords : Cardinality(x) <= MaxCues}}

AnyIn(words, text) == \E word \in words : word \in text.cues

\* nlp_fails: the call of the loaded pipeline on line 88 raises
classify_from_bio(text, classifier, nlp_fails) ==
    IF text.empty THEN [gender |-> "UNKNOWN", confidence |-> {}]
    ELSE IF classifier /\ ~nlp_fails
    THEN IF AnyIn(StrongFemaleCues, text)
         THEN [gender |-> "FEMALE", confidence |-> Hundredth(95)]
         ELSE IF AnyIn(StrongMaleCues, text)
         THEN [gender |-> "MALE", confidence |-> Hundredth(95)]
         ELSE [gender |-> "UNKNOWN", confidence |-> Hundredth(50)]
    ELSE IF AnyIn(WeakFemaleCues, text)
         THEN [gender |-> "FEMALE", confidence |-> Hundredth(80)]
         ELSE IF AnyIn(WeakMaleCues, text)
         THEN [gender |-> "MALE", confidence |-> Hundredth(80)]
         ELSE [gender |-> "UNKNOWN", confidence |-> {}]

\* ---------------------------------------------------------------- the run
get_influencer_demographics_age_key(influencer_id, image, fused) ==
    [influencer_id |-> influencer_id, gender |-> fused.value, age |-> image.age_group]
\* the record built on lines 159-163 from the fused gender and the image result
get_influencer_demographics(influencer_id, image, fused) ==
    [influencer_id |-> influencer_id, gender |-> fused.value, age_group |-> image.age_group]

MOCK_AUDIENCE ==
    [follower_regions     |-> <<(<<"US", 402>>), (<<"CA", 151>>), (<<"UK", 105>>),
                                (<<"DE", 50>>), (<<"Other", 292>>)>>,
     follower_age_dist    |-> [k \in {"<18", "18-25", "26-35", "36-50", "50+"} |->
                                 CASE k = "<18" -> 50 [] k = "18-25" -> 200
                                   [] k = "26-35" -> 450 [] k = "36-50" -> 250
                                   [] OTHER -> 50],
     follower_gender_dist |-> [k \in {"Female", "Male"} |->
                                 IF k = "Female" THEN 195 ELSE 805]]

GenderPredictions ==
    {items \in UNION {[1..n -> {"Man", "Woman"} \X {70, 100}] : n \in 0..2} :
        \A i, j \in 1..Len(items) : i # j => items[i][1] # items[j][1]}

Ages == (0 - MaxNegAge)..MaxAge

AnalysisResults ==
    {Restrict(full, present) :
        full \in [age : Ages, gender : GenderPredictions],
        present \in SUBSET {"age", "gender"}}

ImageOutcomes ==
    {[kind |-> "missing"], Raise("Exception", 37), Return(<<>>, 37)}
    \cup {Return(<<r>>, 37) : r \in AnalysisResults}

Init ==
    /\ NLP_CLASSIFIER \in BOOLEAN
    /\ audience_data \in {MOCK_AUDIENCE, EmptyDict}
    /\ pc = "call"
    /\ analysis = Pending /\ img_res = Pending /\ bio_res = Pending
    /\ final_gender = Pending /\ influencer_data = Pending
    /\ final_vector = Pending
    /\ demographics = Idle

GetInfluencerDemographics ==
    /\ pc = "call"
    /\ \E image \in ImageOutcomes, text \in BioTexts,
          nlp_fails \in (IF NLP_CLASSIFIER THEN BOOLEAN ELSE {FALSE}) :
          LET image_result == classify_from_image(image)
              bio_result   == classify_from_bio(text, NLP_CLASSIFIER, nlp_fails)
              fused        == ensemble_run(image_result, bio_result)
          IN /\ analysis' = image
             /\ img_res' = image_result
             /\ bio_res' = bio_result
             /\ final_gender' = fused
             /\ IF fused.kind = "raise"
                THEN /\ influencer_data' = influencer_data
                     /\ pc' = "failed"
                ELSE /\ influencer_data' =
                          get_influencer_demographics("A456_Wellness", image_result, fused)
                     /\ pc' = "classified"
    /\ UNCHANGED <<NLP_CLASSIFIER, audience_data, demographics, final_vector>>

RunCreateFinalDemographicVector ==
    /\ pc = "classified"
    /\ final_vector' = create_final_demographic_vector(influencer_data, audience_data)
    /\ pc' = IF final_vector'.kind = "return" THEN "done" ELSE "failed"
    /\ UNCHANGED <<NLP_CLASSIFIER, analysis, img_res, bio_res, final_gender,
                   influencer_data, audience_data, demographics>>

Next == GetInfluencerDemographics \/ RunCreateFinalDemographicVector

Spec == Init /\ [][Next]_vars

\* every classifier signal is unusable
NoUsableSignal ==
    /\ img_res = UnknownImage
    /\ bio_res.gender = "UNKNOWN"

\* C5: when the image classifier yields UNKNOWN, UNKNOWN, 0.0 and the bio
\* classifier yields UNKNOWN, the run never reaches the assembler's missing-field
\* failure, and once it is done the final vector holds the influencer id,
\* gender UNKNOWN, age group UNKNOWN and a demographics vector.
C5_UnknownRunCompletes ==
    (pc # "call" /\ NoUsableSignal) =>
        /\ pc \in {"classified", "done"}
        /\ pc = "done" =>
              /\ final_vector.kind = "return"
              /\ DOMAIN final_vector.value = {"influencer_id", "influencer_gender",
                                              "influencer_age_group", "demographics_vector"}
              /\ final_vector.value.influencer_id = "A456_Wellness"
              /\ final_vector.value.influencer_gender = "UNKNOWN"
              /\ final_vector.value.influencer_age_group = "UNKNOWN"
              /\ final_vector.value.demographics_vector
                    = process_audience_demographics(audience_data)

\* the image file is missing and the bio has no cue word for the loaded model
C5_MissingImageWitness ==
    /\ pc = "done"
    /\ analysis.kind = "missing"
    /\ NoUsableSignal
    /\ bio_res.confidence = Hundredth(50)
    /\ final_vector.kind = "return"
    /\ final_vector.value.influencer_gender = "UNKNOWN"
    /\ final_vector.value.influencer_age_group = "UNKNOWN"

\* the image analysis returned a result: the age it holds, 0 when it holds none
Analysed == pc # "call" /\ analysis.kind = "return" /\ Len(analysis.value) > 0
AnalysedAge == IF "age" \in DOMAIN analysis.value[1] THEN analysis.value[1]["age"] ELSE 0

\* C7: every integer age has exactly one bracket and none fails: 0 and negative
\* ages give UNKNOWN, 18..25 "18-25", 26..35 "26-35", 36..50 "36-50", and every
\* other positive age (1..17, 51 and above) "Other".
C7_AgeBinningTotal ==
    Analysed =>
        /\ AnalysedAge <= 0 => img_res.age_group = "UNKNOWN"
        /\ AnalysedAge \in 18..25 => img_res.age_group = "18-25"
        /\ AnalysedAge \in 26..35 => img_res.age_group = "26-35"
        /\ AnalysedAge \in 36..50 => img_res.age_group = "36-50"
        /\ (AnalysedAge \in 1..17 \/ AnalysedAge >= 51) => img_res.age_group = "Other"
        /\ img_res.age_group \in {"UNKNOWN", "18-25", "26-35", "36-50", "Other"}

\* a negative age with a usable gender: the bracket alone is UNKNOWN
C7_NegativeAgeWitness ==
    /\ Analysed
    /\ AnalysedAge < 0
    /\ img_res.gender = "MAN"
    /\ img_res.age_group = "UNKNOWN"

====
